---- MODULE Spec2Model ----
(***************************************************************************)
(* The SD-Core NRF operator charm (src/src/charm.py) and its fiveg_nrf     *)
(* relation library (src/lib/charms/sdcore_nrf/v0/fiveg_nrf.py) as a state *)
(* machine.  One action per Juju event handler; the handlers run one at a  *)
(* time, to completion.  The surrounding platform (container, relations,   *)
(* leadership, storage, pod address) changes between handlers.             *)
(*                                                                         *)
(* Strings whose structure the code inspects (the comma-separated uris     *)
(* field, the URL handed to the library) are sequences of tokens.          *)
(* Dictionaries (relation databags) are sets of <<key, value>> pairs.      *)
(***************************************************************************)
EXTENDS Integers, Sequences, FiniteSets, TLC

\* Number of fiveg-nrf relation ids the platform may create.
MaxRelations == 2

RelationIds == 1..MaxRelations

-----------------------------------------------------------------------------
(* Module constants of charm.py *)

BASE_CONFIG_PATH == "/etc/nrf"
CONFIG_FILE_NAME == "nrfcfg.yaml"
DATABASE_NAME == "free5gc"
NRF_SBI_PORT == 29510
DATABASE_RELATION_NAME == "database"
NRF_URL == <<"http", "://", "nrf", ":", ToString(NRF_SBI_PORT)>>
NRF_RELATION_NAME == "fiveg-nrf"

ConfigFilePath == <<BASE_CONFIG_PATH, "/", CONFIG_FILE_NAME>>

-----------------------------------------------------------------------------
(* Values *)

None == "None"

\* The outputs of `unit-get private-address`: empty, or an IPv4 address.
UnitGetOutputs == {"", "1.1.1.1"}

\* The values the database provider may put under the key uris.
UriStrings ==
    { <<>>,
      <<",", "http://other">>,
      <<"http://dummy">>,
      <<"http://other", ",", "http://dummy">> }

\* The database provider's application databag, as far as the charm reads it.
DatabaseBags == {{}} \cup {{<<"uris", s>>} : s \in UriStrings}

\* Values handed to NRFProvides.set_nrf_information.
UrlCandidates ==
    { NRF_URL,
      <<"https", "://", "nrf.example.com">>,
      <<"https", "://", "different.nrf.com">>,
      <<"not a url">>,
      <<"ftp", "://", "nrf">>,
      <<"http", "://">>,
      <<>> }

HasKey(bag, key) == \E p \in bag : p[1] = key
Get(bag, key) == (CHOOSE p \in bag : p[1] = key)[2]
\* dict.update({key: value})
Update(bag, key, value) == {p \in bag : p[1] /= key} \cup {<<key, value>>}

\* str.split(sep): the pieces between the separators, at least one piece.
RECURSIVE Split(_, _)
Split(s, sep) ==
    IF s = <<>> THEN << <<>> >>
    ELSE IF Head(s) = sep THEN << <<>> >> \o Split(Tail(s), sep)
    ELSE LET rest == Split(Tail(s), sep)
         IN  << <<Head(s)>> \o Head(rest) >> \o Tail(rest)

WaitingStatus(message) == [name |-> "waiting", message |-> message]
BlockedStatus(message) == [name |-> "blocked", message |-> message]
ActiveStatus == [name |-> "active", message |-> ""]
UnknownStatus == [name |-> "unknown", message |-> ""]

-----------------------------------------------------------------------------
VARIABLES
    canConnect,     \* Container.can_connect()
    dbRelation,     \* a database relation exists
    dbCreated,      \* DatabaseRequires.is_resource_created()
    dbData,         \* the database provider's application databag
    storage,        \* the directory /etc/nrf exists in the workload
    files,          \* the workload's files: <<path, content>> pairs
    unitGet,        \* output of `unit-get private-address`
    leader,         \* unit.is_leader()
    nrfRelations,   \* ids of the existing fiveg-nrf relations
    databag,        \* provider application databag of each fiveg-nrf relation
    plan,           \* services of the container's Pebble plan
    services,       \* Pebble's service states: <<name, current>> pairs
    status,         \* unit status
    deferred,       \* events wait, deferred, for redelivery to _configure_nrf
    op,             \* the handler that ran last ("none" after a platform step)
    joined,         \* the relation of the relation event it handled, or 0
    wrote,          \* it pushed the config file
    restarted,      \* it added the layer and restarted the service
    raised,         \* the exception it ended with, or "none"
    didDefer,       \* it deferred its event
    urlArg,         \* the url of the last direct call of the library
    remoteApps,     \* requirer side: the relations whose relation.app is set
    emitted,        \* requirer side: urls of the nrf_available events it emitted
    arrived,        \* events that arrived and are not handled yet
    start,          \* the workload and databags when those events arrived
    tls             \* certificate material in the workload, and its last event

vars == <<canConnect, dbRelation, dbCreated, dbData, storage, files, unitGet,
          leader, nrfRelations, databag, plan, services, status, deferred,
          op, joined, wrote, restarted, raised, didDefer, urlArg,
          remoteApps, emitted, arrived, start, tls>>

platform == <<canConnect, dbRelation, dbCreated, dbData, storage, unitGet,
              leader, nrfRelations>>
workload == <<files, plan, services>>
trace == <<op, joined, wrote, restarted, raised, didDefer>>
requirer == <<remoteApps, emitted>>
arrivals == <<arrived, start>>

\* No event waits; nothing is remembered of an arrival.
NoArrival == [configure |-> {}, joins |-> {}]
NoStart == [files |-> {}, plan |-> {}, services |-> {},
            databag |-> [r \in RelationIds |-> {}]]

\* No certificate material is stored, no certificate event was handled.
\* key, csr and pem are the contents of /free5gc/support/TLS/nrf.key, nrf.csr
\* and nrf.pem; request is the CSR of the handler's certificate request.
NoTls == [key |-> None, csr |-> None, pem |-> None, request |-> None,
          certificate |-> None, certificate_signing_request |-> None]


Init ==
    /\ canConnect = FALSE
    /\ dbRelation = FALSE
    /\ dbCreated = FALSE
    /\ dbData = {}
    /\ storage = FALSE
    /\ files = {}
    /\ unitGet = ""
    /\ leader = FALSE
    /\ nrfRelations = {}
    /\ databag = [r \in RelationIds |-> {}]
    /\ plan = {}
    /\ services = {}
    /\ status = UnknownStatus
    /\ deferred = FALSE
    /\ op = "none"
    /\ joined = 0
    /\ wrote = FALSE
    /\ restarted = FALSE
    /\ raised = "none"
    /\ didDefer = FALSE
    /\ urlArg = <<>>
    /\ remoteApps = RelationIds
    /\ emitted = <<>>
    /\ arrived = NoArrival
    /\ start = NoStart
    /\ tls = NoTls

-----------------------------------------------------------------------------
(* The fiveg_nrf library, provider side (class NRFProvides) *)

\* pydantic's AnyHttpUrl: scheme http or https, "://", and a host.
AnyHttpUrl(url) ==
    /\ Len(url) >= 3
    /\ url[1] \in {"http", "https"}
    /\ url[2] = "://"
    /\ url[3] /= ""

\* Mutant: any scheme://, with or without a host, passes.
NRFProvides_relation_data_is_valid_no_host(url) ==
    Len(url) >= 2 /\ url[2] = "://"

NRFProvides_relation_data_is_valid(url) == AnyHttpUrl(url)

Returned(bag) == [raised |-> "none", databag |-> bag]
Raised(exception, bag) == [raised |-> exception, databag |-> bag]

\* Mutant: the leadership check is gone; any unit writes.
set_nrf_information_any_unit(bag, url) ==
    IF nrfRelations = {}
    THEN Raised("RuntimeError", bag)
    ELSE IF ~NRFProvides_relation_data_is_valid(url)
    THEN Raised("ValueError", bag)
    ELSE Returned([r \in RelationIds |->
                      IF r \in nrfRelations THEN Update(bag[r], "url", url)
                      ELSE bag[r]])

\* NRFProvides.set_nrf_information(url), called on the databags `bag`.
set_nrf_information(bag, url) ==
    IF ~leader
    THEN Raised("RuntimeError", bag)
    ELSE IF nrfRelations = {}
    THEN Raised("RuntimeError", bag)
    ELSE IF ~NRFProvides_relation_data_is_valid(url)
    THEN Raised("ValueError", bag)
    ELSE Returned([r \in RelationIds |->
                      IF r \in nrfRelations THEN Update(bag[r], "url", url)
                      ELSE bag[r]])

(* charm.py calls the library's later interface, set_nrf_information(url,  *)
(* relation_id) and set_nrf_information_in_all_relations(url).  The library *)
(* source at hand is the earlier one above, so the two operations are taken *)
(* from the specification's exchange contract (publish, publish_all).       *)

\* publish(url, channel, relation_id): the caller must be the leader and the
\* channel must have a relation; an invalid url is a validation error and
\* nothing is written; otherwise the record of that relation is overwritten.
publish(bag, url, relation_id) ==
    IF ~leader
    THEN Raised("RuntimeError", bag)
    ELSE IF nrfRelations = {}
    THEN Raised("RuntimeError", bag)
    ELSE IF ~NRFProvides_relation_data_is_valid(url)
    THEN Raised("ValueError", bag)
    ELSE Returned([bag EXCEPT ![relation_id] = Update(@, "url", url)])

\* publish_all(url, channel): publish to every relation of the channel; with
\* no relation, a silent no-op.
publish_all(bag, url) ==
    IF ~leader
    THEN Raised("RuntimeError", bag)
    ELSE IF nrfRelations = {}
    THEN Returned(bag)
    ELSE IF ~NRFProvides_relation_data_is_valid(url)
    THEN Raised("ValueError", bag)
    ELSE Returned([r \in RelationIds |->
                      IF r \in nrfRelations THEN Update(bag[r], "url", url)
                      ELSE bag[r]])

-----------------------------------------------------------------------------
(* The library, requirer side (class NRFRequires) *)

\* A Python value handed to a validator: a str (its tokens) or a dict (its
\* <<key, value>> pairs).
Str(value) == [type |-> "str", value |-> value]
Dict(value) == [type |-> "dict", value |-> value]

\* MyProviderAppData(url=value): the field is an AnyHttpUrl, so pydantic takes
\* a str that is an absolute http(s) URL; any other value is a ValidationError.
MyProviderAppData(value) == value.type = "str" /\ AnyHttpUrl(value.value)

\* Mutant: a databag with the key url passes, whatever the value.
NRFRequires_relation_data_is_valid_key_only(url) ==
    url.type = "dict" /\ HasKey(url.value, "url")

\* NRFRequires._relation_data_is_valid.  The class body defines the name
\* twice; the second definition, which validates a url string, is the one the
\* class keeps.  ValidationError is caught: the answer is False.
NRFRequires_relation_data_is_valid(url) == MyProviderAppData(url)

\* NRFRequires._on_relation_changed(event): [raised, emitted].
_on_relation_changed(relation) ==
    LET remote_app_relation_data == databag[relation] IN
    IF relation \notin remoteApps
    THEN [raised |-> "none", emitted |-> <<>>]
    ELSE IF ~NRFRequires_relation_data_is_valid(Dict(remote_app_relation_data))
    THEN [raised |-> "none", emitted |-> <<>>]
    ELSE IF ~HasKey(remote_app_relation_data, "url")
    THEN [raised |-> "KeyError", emitted |-> <<>>]
    ELSE [raised |-> "none",
          emitted |-> << Get(remote_app_relation_data, "url") >>]

-----------------------------------------------------------------------------
(* The charm (class NRFOperatorCharm) *)

\* The outputs of unit-get that ipaddress.IPv4Address takes; it raises
\* AddressValueError for any other text that is not empty.
IPv4Addresses == {"1.1.1.1"}

\* What unit-get may print at all: nothing, an IPv4 address, an IPv6 address.
UnitGetTexts == UnitGetOutputs \cup {"fd00::1"}

\* Mutant: an address is made up when unit-get prints none.
_get_pod_ip_default == IF unitGet /= "" THEN unitGet ELSE "0.0.0.0"

\* Mutant: the address is never known.
_get_pod_ip_never == None

_get_pod_ip == IF unitGet /= "" THEN unitGet ELSE None

_render_config(database_name, database_url, nrf_ip, nrf_sbi_port) ==
    [database_name |-> database_name, database_url |-> database_url,
     nrf_ip |-> nrf_ip, nrf_sbi_port |-> nrf_sbi_port]

\* Mutant: any relation counts, whatever its name.
_relation_created_any_name(relation_name) ==
    dbRelation \/ nrfRelations /= {}

_relation_created(relation_name) ==
    IF relation_name = DATABASE_RELATION_NAME THEN dbRelation
    ELSE nrfRelations /= {}

\* Mutant: the relation's existence taken for the resource's.
_database_is_available_if_related == dbRelation

_database_is_available == dbCreated

\* [raised, value]: RuntimeError when the database is not available.
_database_info ==
    IF ~_database_is_available
    THEN [raised |-> "RuntimeError", value |-> {}]
    ELSE [raised |-> "none", value |-> dbData]

\* Mutant: the whole of uris, not split.
_get_database_uri_unsplit ==
    IF HasKey(_database_info.value, "uris")
    THEN Get(_database_info.value, "uris")
    ELSE <<>>

\* The first comma-separated entry of uris; "" when the key is missing.
_get_database_uri ==
    IF HasKey(_database_info.value, "uris")
    THEN Split(Get(_database_info.value, "uris"), ",")[1]
    ELSE <<>>

_environment_variables ==
    [GRPC_GO_LOG_VERBOSITY_LEVEL |-> "99",
     GRPC_GO_LOG_SEVERITY_LEVEL |-> "info",
     GRPC_TRACE |-> "all",
     GRPC_VERBOSITY |-> "debug",
     MANAGED_BY_CONFIG_POD |-> "true"]

\* The services of the charm's Pebble layer.
_pebble_layer ==
    { [name |-> "nrf",
       override |-> "replace",
       startup |-> "enabled",
       command |-> <<"/bin/nrf", "--nrfcfg", ConfigFilePath>>,
       environment |-> _environment_variables] }

Exists(path) == \E f \in files : f[1] = path
Pull(path) == (CHOOSE f \in files : f[1] = path)[2]

\* Mutant: the stored file is never taken to match.
_config_file_content_matches_never(content) == FALSE

\* Mutant: an existing file matches, whatever it holds.
_config_file_content_matches_if_exists(content) == Exists(ConfigFilePath)

_config_file_content_matches(content) ==
    IF ~Exists(ConfigFilePath) THEN FALSE
    ELSE IF Pull(ConfigFilePath) /= content THEN FALSE
    ELSE TRUE

\* The files after _push_config_file(content).
_push_config_file(content) ==
    IF ~canConnect THEN files
    ELSE {f \in files : f[1] /= ConfigFilePath} \cup {<<ConfigFilePath, content>>}

\* Mutant: the whole of uris is rendered as the database url.
RenderedContent_whole_uris ==
    _render_config(DATABASE_NAME,
                   Get(_database_info.value, "uris"),
                   _get_pod_ip,
                   NRF_SBI_PORT)

\* The content _generate_config_file renders.
RenderedContent ==
    _render_config(DATABASE_NAME,
                   Split(Get(_database_info.value, "uris"), ",")[1],
                   _get_pod_ip,
                   NRF_SBI_PORT)

\* _generate_config_file: [files, needs_restart].
_generate_config_file ==
    IF ~_config_file_content_matches(RenderedContent)
    THEN [files |-> _push_config_file(RenderedContent), needs_restart |-> TRUE]
    ELSE [files |-> files, needs_restart |-> FALSE]

\* Container.add_layer("nrf", layer, combine=True): a service of the layer
\* replaces the service of that name.
AddLayer(p, layer) ==
    {s \in p : \A l \in layer : l.name /= s.name} \cup layer

\* Container.restart(name): the service ends up active.
Restart(svcs, name) == {s \in svcs : s[1] /= name} \cup {<<name, "active">>}

\* Mutant: restarts on every pass.
_configure_workload_always(restart) ==
    [plan |-> AddLayer(plan, _pebble_layer),
     services |-> Restart(services, "nrf"),
     restarted |-> TRUE]

\* Mutant: restarts on the restart flag alone, the plan not compared.
_configure_workload_flag_only(restart) ==
    IF restart
    THEN [plan |-> AddLayer(plan, _pebble_layer),
          services |-> Restart(services, "nrf"),
          restarted |-> TRUE]
    ELSE [plan |-> plan, services |-> services, restarted |-> FALSE]

\* _configure_workload(restart): [plan, services, restarted].
_configure_workload(restart) ==
    IF plan /= _pebble_layer \/ restart
    THEN [plan |-> AddLayer(plan, _pebble_layer),
          services |-> Restart(services, "nrf"),
          restarted |-> TRUE]
    ELSE [plan |-> plan, services |-> services, restarted |-> FALSE]

\* Mutant: the pass publishes nothing.
_publish_nrf_info_dropped(url) == Returned(databag)

\* Mutant: publishes to the first relation only.
_publish_nrf_info_first_relation(url) ==
    IF ~leader THEN Returned(databag)
    ELSE IF ~_relation_created(NRF_RELATION_NAME) THEN Returned(databag)
    ELSE publish(databag, url, CHOOSE r \in nrfRelations : \A q \in nrfRelations : r <= q)

\* Mutant: no leadership check before publishing.
_publish_nrf_info_unchecked(url) ==
    IF ~_relation_created(NRF_RELATION_NAME) THEN Returned(databag)
    ELSE publish_all(databag, url)

\* _publish_nrf_info_for_all_requirers(url): [raised, databag].
_publish_nrf_info_for_all_requirers(url) ==
    IF ~leader THEN Returned(databag)
    ELSE IF ~_relation_created(NRF_RELATION_NAME) THEN Returned(databag)
    ELSE publish_all(databag, url)

\* Mutant: a service Pebble knows counts as running.
_nrf_service_is_known ==
    IF ~canConnect THEN FALSE
    ELSE HasKey(services, "nrf")

_nrf_service_is_running ==
    IF ~canConnect THEN FALSE
    ELSE IF ~HasKey(services, "nrf") THEN FALSE
    ELSE Get(services, "nrf") = "active"

\* What a handler leaves behind; a handler changes nothing of the platform.
Handled(handler, relation, newStatus, defer, pending, newFiles, newWorkload, newBags, w, x) ==
    /\ op' = handler
    /\ joined' = relation
    /\ status' = newStatus
    /\ didDefer' = defer
    /\ deferred' = (pending \/ defer)
    /\ files' = newFiles
    /\ plan' = newWorkload.plan
    /\ services' = newWorkload.services
    /\ restarted' = newWorkload.restarted
    /\ databag' = newBags
    /\ wrote' = w
    /\ raised' = x
    /\ UNCHANGED <<platform, urlArg, requirer, tls>>

Untouched == [plan |-> plan, services |-> services, restarted |-> FALSE]

\* Mutant: no early return defers.
EarlyReturn_without_defer(newStatus, defer, pending) ==
    Handled("_configure_nrf", 0, newStatus, FALSE, pending,
            files, Untouched, databag, FALSE, "none")

\* Mutant: an event is deferred only when no other event waits deferred.
EarlyReturn_defers_once(newStatus, defer, pending) ==
    Handled("_configure_nrf", 0, newStatus, defer /\ ~pending, pending,
            files, Untouched, databag, FALSE, "none")

\* An early return of _configure_nrf: a status, with or without event.defer().
EarlyReturn(newStatus, defer, pending) ==
    Handled("_configure_nrf", 0, newStatus, defer, pending,
            files, Untouched, databag, FALSE, "none")

\* Mutant: the config file is generated before the pod IP is looked at.
_configure_nrf_renders_before_address(pending) ==
    IF ~canConnect
    THEN EarlyReturn(WaitingStatus("Waiting for container to be ready"), TRUE, pending)
    ELSE IF ~_relation_created(DATABASE_RELATION_NAME)
    THEN EarlyReturn(BlockedStatus("Waiting for database relation to be created"), FALSE, pending)
    ELSE IF ~_database_is_available
    THEN EarlyReturn(WaitingStatus("Waiting for the database to be available"), FALSE, pending)
    ELSE IF _database_info.raised /= "none"
    THEN Handled("_configure_nrf", 0, status, FALSE, pending,
                 files, Untouched, databag, FALSE, _database_info.raised)
    ELSE IF _get_database_uri = <<>>
    THEN EarlyReturn(WaitingStatus("Waiting for database URI"), TRUE, pending)
    ELSE IF ~storage
    THEN EarlyReturn(WaitingStatus("Waiting for storage to be attached"), TRUE, pending)
    ELSE IF unitGet /= "" /\ unitGet \notin IPv4Addresses
    THEN Handled("_configure_nrf", 0, status, FALSE, pending,
                 files, Untouched, databag, FALSE, "AddressValueError")
    ELSE IF _get_pod_ip = None
    THEN Handled("_configure_nrf", 0,
                 WaitingStatus("Waiting for pod IP address to be available"),
                 TRUE, pending, _generate_config_file.files, Untouched, databag,
                 _generate_config_file.files /= files, "none")
    ELSE LET generated == _generate_config_file
             configured == _configure_workload(generated.needs_restart)
             published == _publish_nrf_info_for_all_requirers(NRF_URL)
         IN  Handled("_configure_nrf", 0,
                     IF published.raised = "none" THEN ActiveStatus ELSE status,
                     FALSE, pending,
                     generated.files, configured, published.databag,
                     generated.files /= files,
                     published.raised)

\* Mutant: the database is queried without the availability check.
_configure_nrf_without_availability_check(pending) ==
    IF ~canConnect
    THEN EarlyReturn(WaitingStatus("Waiting for container to be ready"), TRUE, pending)
    ELSE IF ~_relation_created(DATABASE_RELATION_NAME)
    THEN EarlyReturn(BlockedStatus("Waiting for database relation to be created"), FALSE, pending)
    ELSE IF _database_info.raised /= "none"
    THEN Handled("_configure_nrf", 0, status, FALSE, pending,
                 files, Untouched, databag, FALSE, _database_info.raised)
    ELSE IF _get_database_uri = <<>>
    THEN EarlyReturn(WaitingStatus("Waiting for database URI"), TRUE, pending)
    ELSE IF ~storage
    THEN EarlyReturn(WaitingStatus("Waiting for storage to be attached"), TRUE, pending)
    ELSE IF unitGet /= "" /\ unitGet \notin IPv4Addresses
    THEN Handled("_configure_nrf", 0, status, FALSE, pending,
                 files, Untouched, databag, FALSE, "AddressValueError")
    ELSE IF _get_pod_ip = None
    THEN EarlyReturn(WaitingStatus("Waiting for pod IP address to be available"), TRUE, pending)
    ELSE LET generated == _generate_config_file
             configured == _configure_workload(generated.needs_restart)
             published == _publish_nrf_info_for_all_requirers(NRF_URL)
         IN  Handled("_configure_nrf", 0,
                     IF published.raised = "none" THEN ActiveStatus ELSE status,
                     FALSE, pending,
                     generated.files, configured, published.databag,
                     generated.files /= files,
                     published.raised)

\* _configure_nrf(event).  The handler reads nothing of its event; `pending`
\* tells whether other events stay deferred while this one is handled.
_configure_nrf(pending) ==
    IF ~canConnect
    THEN EarlyReturn(WaitingStatus("Waiting for container to be ready"), TRUE, pending)
    ELSE IF ~_relation_created(DATABASE_RELATION_NAME)
    THEN EarlyReturn(BlockedStatus("Waiting for database relation to be created"), FALSE, pending)
    ELSE IF ~_database_is_available
    THEN EarlyReturn(WaitingStatus("Waiting for the database to be available"), FALSE, pending)
    ELSE IF _database_info.raised /= "none"
    THEN Handled("_configure_nrf", 0, status, FALSE, pending,
                 files, Untouched, databag, FALSE, _database_info.raised)
    ELSE IF _get_database_uri = <<>>
    THEN EarlyReturn(WaitingStatus("Waiting for database URI"), TRUE, pending)
    ELSE IF ~storage
    THEN EarlyReturn(WaitingStatus("Waiting for storage to be attached"), TRUE, pending)
    ELSE IF unitGet /= "" /\ unitGet \notin IPv4Addresses
    THEN Handled("_configure_nrf", 0, status, FALSE, pending,
                 files, Untouched, databag, FALSE, "AddressValueError")
    ELSE IF _get_pod_ip = None
    THEN EarlyReturn(WaitingStatus("Waiting for pod IP address to be available"), TRUE, pending)
    ELSE LET generated == _generate_config_file
             configured == _configure_workload(generated.needs_restart)
             published == _publish_nrf_info_for_all_requirers(NRF_URL)
         IN  Handled("_configure_nrf", 0,
                     IF published.raised = "none" THEN ActiveStatus ELSE status,
                     FALSE, pending,
                     generated.files, configured, published.databag,
                     generated.files /= files,
                     published.raised)

\* Mutant: the leadership check inverted.
_on_fiveg_nrf_relation_joined_inverted(relation) ==
    LET called == IF leader THEN Returned(databag)
                  ELSE IF ~_nrf_service_is_running THEN Returned(databag)
                  ELSE publish(databag, NRF_URL, relation)
    IN  Handled("_on_fiveg_nrf_relation_joined", relation, status, FALSE, deferred,
                files, Untouched, called.databag, FALSE, called.raised)

\* _on_fiveg_nrf_relation_joined(event), for the relation `relation`.
_on_fiveg_nrf_relation_joined(relation) ==
    LET called == IF ~leader THEN Returned(databag)
                  ELSE IF ~_nrf_service_is_running THEN Returned(databag)
                  ELSE publish(databag, NRF_URL, relation)
    IN  Handled("_on_fiveg_nrf_relation_joined", relation, status, FALSE, deferred,
                files, Untouched, called.databag, FALSE, called.raised)

-----------------------------------------------------------------------------
(* Events: NRFOperatorCharm.__init__ observes them *)

\* database-relation-joined: a database relation exists.
DatabaseRelationJoined ==
    /\ dbRelation
    /\ _configure_nrf(deferred)
    /\ UNCHANGED arrivals

\* nrf-pebble-ready: Pebble answers in the nrf container.
NrfPebbleReady ==
    /\ canConnect
    /\ _configure_nrf(deferred)
    /\ UNCHANGED arrivals

\* database_created: the database library saw the credentials arrive.
DatabaseCreated ==
    /\ dbCreated
    /\ _configure_nrf(deferred)
    /\ UNCHANGED arrivals

\* The framework delivers the deferred events again, to the same handler.
Redeliver ==
    /\ deferred
    /\ _configure_nrf(FALSE)
    /\ UNCHANGED arrivals

\* fiveg-nrf-relation-joined for an existing relation.
FivegNrfRelationJoined ==
    /\ \E relation \in nrfRelations : _on_fiveg_nrf_relation_joined(relation)
    /\ UNCHANGED arrivals

-----------------------------------------------------------------------------
(* The platform, between handlers *)

Quiet ==
    /\ op' = "none"
    /\ joined' = 0
    /\ wrote' = FALSE
    /\ restarted' = FALSE
    /\ raised' = "none"
    /\ didDefer' = FALSE
    /\ emitted' = <<>>
    /\ UNCHANGED <<status, deferred, urlArg, arrivals, tls>>

ContainerChanges ==
    /\ canConnect' = ~canConnect
    /\ Quiet
    /\ UNCHANGED <<remoteApps, dbRelation, dbCreated, dbData, storage, files, unitGet, leader,
                   nrfRelations, databag, plan, services>>

\* The pod is replaced: a fresh container, whose Pebble has no plan and no
\* service and does not answer yet; the storage volume keeps its files.
ContainerReplaced ==
    /\ canConnect' = FALSE
    /\ plan' = {}
    /\ services' = {}
    /\ Quiet
    /\ UNCHANGED <<remoteApps, dbRelation, dbCreated, dbData, storage, files, unitGet, leader,
                   nrfRelations, databag>>

DatabaseRelationChanges ==
    /\ dbRelation' = ~dbRelation
    /\ dbCreated' = FALSE
    /\ dbData' = {}
    /\ Quiet
    /\ UNCHANGED <<remoteApps, canConnect, storage, files, unitGet, leader, nrfRelations,
                   databag, plan, services>>

DatabaseDataChanges ==
    /\ dbRelation
    /\ \E created \in BOOLEAN, bag \in DatabaseBags :
         /\ <<created, bag>> /= <<dbCreated, dbData>>
         /\ dbCreated' = created
         /\ dbData' = bag
    /\ Quiet
    /\ UNCHANGED <<remoteApps, canConnect, dbRelation, storage, files, unitGet, leader,
                   nrfRelations, databag, plan, services>>

\* Storage is attached, or detached with the files on it.
StorageChanges ==
    /\ storage' = ~storage
    /\ files' = IF storage THEN {} ELSE files
    /\ Quiet
    /\ UNCHANGED <<remoteApps, canConnect, dbRelation, dbCreated, dbData, unitGet, leader,
                   nrfRelations, databag, plan, services>>

PodIpChanges ==
    /\ \E out \in UnitGetOutputs \ {unitGet} : unitGet' = out
    /\ Quiet
    /\ UNCHANGED <<remoteApps, canConnect, dbRelation, dbCreated, dbData, storage, files,
                   leader, nrfRelations, databag, plan, services>>

LeaderChanges ==
    /\ leader' = ~leader
    /\ Quiet
    /\ UNCHANGED <<remoteApps, canConnect, dbRelation, dbCreated, dbData, storage, files,
                   unitGet, nrfRelations, databag, plan, services>>

\* A fiveg-nrf relation is created (with an empty databag) or removed.
NrfRelationChanges ==
    /\ \E r \in RelationIds :
         /\ nrfRelations' = IF r \in nrfRelations THEN nrfRelations \ {r}
                            ELSE nrfRelations \cup {r}
         /\ databag' = [databag EXCEPT ![r] = {}]
    /\ Quiet
    /\ UNCHANGED <<remoteApps, canConnect, dbRelation, dbCreated, dbData, storage, files,
                   unitGet, leader, plan, services>>

\* The nrf process exits.
ServiceStops ==
    /\ HasKey(services, "nrf") /\ Get(services, "nrf") = "active"
    /\ services' = Update(services, "nrf", "inactive")
    /\ Quiet
    /\ UNCHANGED <<remoteApps, canConnect, dbRelation, dbCreated, dbData, storage, files,
                   unitGet, leader, nrfRelations, databag, plan>>

Next ==
    \/ DatabaseRelationJoined
    \/ NrfPebbleReady
    \/ DatabaseCreated
    \/ Redeliver
    \/ FivegNrfRelationJoined
    \/ ContainerChanges
    \/ ContainerReplaced
    \/ DatabaseRelationChanges
    \/ DatabaseDataChanges
    \/ StorageChanges
    \/ PodIpChanges
    \/ LeaderChanges
    \/ NrfRelationChanges
    \/ ServiceStops

Spec == Init /\ [][Next]_vars

-----------------------------------------------------------------------------
(* The library on its own: a provider charm calls set_nrf_information(url) *)
(* with any url, leader or not, with or without relations.                 *)

ProviderSetsNrfInformation ==
    \E url \in UrlCandidates :
        LET called == set_nrf_information(databag, url) IN
        /\ op' = "set_nrf_information"
        /\ urlArg' = url
        /\ databag' = called.databag
        /\ raised' = called.raised
        /\ UNCHANGED <<platform, workload, status, deferred, joined, wrote,
                       restarted, didDefer, requirer, arrivals, tls>>

LibNext ==
    \/ ProviderSetsNrfInformation
    \/ LeaderChanges
    \/ NrfRelationChanges

LibSpec == Init /\ [][LibNext]_vars

-----------------------------------------------------------------------------
(* The requirer's end of a fiveg-nrf relation: the provider application's   *)
(* databag holds whatever the remote side wrote there.                      *)

ProviderBags == {{}} \cup {{<<"url", u>>} : u \in UrlCandidates}

\* fiveg-nrf-relation-changed for an existing relation.
RelationChanged ==
    \E relation \in nrfRelations :
        LET handled == _on_relation_changed(relation) IN
        /\ op' = "_on_relation_changed"
        /\ joined' = relation
        /\ emitted' = handled.emitted
        /\ raised' = handled.raised
        /\ UNCHANGED <<platform, workload, databag, status, deferred, wrote,
                       restarted, didDefer, urlArg, remoteApps, arrivals, tls>>

\* The remote application writes its databag.
ProviderDataChanges ==
    /\ \E r \in nrfRelations :
         \E bag \in ProviderBags \ {databag[r]} :
             databag' = [databag EXCEPT ![r] = bag]
    /\ Quiet
    /\ UNCHANGED <<platform, workload, remoteApps>>

\* The remote application of a relation goes away, or comes back.
RemoteAppChanges ==
    /\ \E r \in RelationIds :
         remoteApps' = IF r \in remoteApps THEN remoteApps \ {r}
                       ELSE remoteApps \cup {r}
    /\ Quiet
    /\ UNCHANGED <<platform, workload, databag>>

RequirerNext ==
    \/ RelationChanged
    \/ ProviderDataChanges
    \/ RemoteAppChanges
    \/ NrfRelationChanges

RequirerSpec == Init /\ [][RequirerNext]_vars

-----------------------------------------------------------------------------
(* Events that arrived together: the external state stays as it is while    *)
(* the charm handles them, one after the other, in any order.               *)

\* The events observed by _configure_nrf.
ConfigureEvents ==
    {"database_relation_joined", "nrf_pebble_ready", "database_created"}

\* What an earlier pass may have left in the config file.
ConfigContents ==
    { _render_config(DATABASE_NAME, uri, ip, NRF_SBI_PORT) :
          uri \in {Split(s, ",")[1] : s \in UriStrings} \ {<<>>},
          ip \in UnitGetOutputs \ {""} }

\* Any external state, with what earlier passes may have left in the
\* workload and in the databags; the three events of _configure_nrf and the
\* relation-joined event of every fiveg-nrf relation have arrived.
ArrivalInit ==
    /\ canConnect \in BOOLEAN
    /\ dbRelation \in BOOLEAN
    /\ dbCreated \in BOOLEAN
    /\ dbData \in DatabaseBags
    /\ ~dbRelation => (~dbCreated /\ dbData = {})
    /\ storage \in BOOLEAN
    /\ files \in {{}} \cup {{<<ConfigFilePath, c>>} : c \in ConfigContents}
    /\ ~storage => files = {}
    /\ unitGet \in UnitGetOutputs
    /\ leader \in BOOLEAN
    /\ nrfRelations \in SUBSET RelationIds
    /\ databag \in [RelationIds -> {{}, {<<"url", NRF_URL>>}}]
    /\ \A r \in RelationIds \ nrfRelations : databag[r] = {}
    /\ plan \in {{}, _pebble_layer}
    /\ services \in {{}, {<<"nrf", "active">>}, {<<"nrf", "inactive">>}}
    /\ plan = {} <=> services = {}
    /\ status \in {UnknownStatus, ActiveStatus}
    /\ deferred = FALSE
    /\ op = "none"
    /\ joined = 0
    /\ wrote = FALSE
    /\ restarted = FALSE
    /\ raised = "none"
    /\ didDefer = FALSE
    /\ urlArg = <<>>
    /\ remoteApps = RelationIds
    /\ emitted = <<>>
    /\ arrived = [configure |-> ConfigureEvents, joins |-> nrfRelations]
    /\ start = [files |-> files, plan |-> plan, services |-> services,
                databag |-> databag]
    /\ tls = NoTls

\* One of the arrived events of _configure_nrf is handled.
HandleConfigureEvent ==
    \E event \in arrived.configure :
        /\ _configure_nrf(deferred)
        /\ arrived' = [arrived EXCEPT !.configure = @ \ {event}]
        /\ UNCHANGED start

\* One of the arrived relation-joined events is handled.
HandleRelationJoinedEvent ==
    \E relation \in arrived.joins :
        /\ _on_fiveg_nrf_relation_joined(relation)
        /\ arrived' = [arrived EXCEPT !.joins = @ \ {relation}]
        /\ UNCHANGED start

ArrivalNext ==
    \/ HandleConfigureEvent
    \/ HandleRelationJoinedEvent

ArrivalSpec == ArrivalInit /\ [][ArrivalNext]_vars

-----------------------------------------------------------------------------
(* The charm where unit-get may print an address that is not IPv4 *)

PodIpIsNotIPv4 ==
    /\ \E out \in UnitGetTexts \ (UnitGetOutputs \cup {unitGet}) : unitGet' = out
    /\ Quiet
    /\ UNCHANGED <<remoteApps, canConnect, dbRelation, dbCreated, dbData,
                   storage, files, leader, nrfRelations, databag, plan, services>>

AddressNext ==
    \/ Next
    \/ PodIpIsNotIPv4

AddressSpec == Init /\ [][AddressNext]_vars

-----------------------------------------------------------------------------
(* The charm where Pebble stops answering in the middle of a pass *)

\* A pass of _configure_nrf whose checks all passed, whose stored file does
\* not match the rendered content, and in which Pebble stops answering before
\* _push_config_file asks can_connect(): the push is skipped without a word
\* and _generate_config_file returns True.  `back` tells whether Pebble
\* answers again when _configure_workload asks for the plan: if not,
\* get_plan() raises ConnectionError; if so, the layer is added, the service
\* restarted, the url published and ActiveStatus set.
_configure_nrf_container_lost(pending, back) ==
    /\ canConnect
    /\ _relation_created(DATABASE_RELATION_NAME)
    /\ _database_is_available
    /\ _get_database_uri /= <<>>
    /\ storage
    /\ _get_pod_ip /= None
    /\ ~_config_file_content_matches(RenderedContent)
    /\ canConnect' = back
    /\ op' = "_configure_nrf"
    /\ joined' = 0
    /\ didDefer' = FALSE
    /\ deferred' = pending
    /\ files' = files
    /\ wrote' = FALSE
    /\ IF back
       THEN LET configured == _configure_workload(TRUE)
                published == _publish_nrf_info_for_all_requirers(NRF_URL)
            IN  /\ plan' = configured.plan
                /\ services' = configured.services
                /\ restarted' = configured.restarted
                /\ databag' = published.databag
                /\ raised' = published.raised
                /\ status' = IF published.raised = "none" THEN ActiveStatus
                             ELSE status
       ELSE /\ raised' = "ConnectionError"
            /\ restarted' = FALSE
            /\ UNCHANGED <<plan, services, databag, status>>
    /\ UNCHANGED <<dbRelation, dbCreated, dbData, storage, unitGet, leader,
                   nrfRelations, urlArg, requirer, tls>>

ContainerLostBeforePush ==
    /\ \E back \in BOOLEAN : _configure_nrf_container_lost(deferred, back)
    /\ UNCHANGED arrivals

PushNext ==
    \/ Next
    \/ ContainerLostBeforePush

PushSpec == Init /\ [][PushNext]_vars

-----------------------------------------------------------------------------
(* The charm with the relation-joined event of a fiveg-nrf relation         *)
(* delivered once, after the relation appeared.  The charm observes no      *)
(* leadership event, so a change of leadership delivers nothing.            *)

\* A fiveg-nrf relation appears, with an empty databag; its relation-joined
\* event waits to be handled.
FivegNrfRelationCreated ==
    /\ \E r \in RelationIds \ nrfRelations :
         /\ nrfRelations' = nrfRelations \cup {r}
         /\ databag' = [databag EXCEPT ![r] = {}]
         /\ arrived' = [arrived EXCEPT !.joins = @ \cup {r}]
    /\ op' = "none"
    /\ joined' = 0
    /\ wrote' = FALSE
    /\ restarted' = FALSE
    /\ raised' = "none"
    /\ didDefer' = FALSE
    /\ emitted' = <<>>
    /\ UNCHANGED <<status, deferred, urlArg, start, tls, remoteApps,
                   canConnect, dbRelation, dbCreated, dbData, storage, files,
                   unitGet, leader, plan, services>>

\* A fiveg-nrf relation goes away, and its unhandled event with it.
FivegNrfRelationRemoved ==
    /\ \E r \in nrfRelations :
         /\ nrfRelations' = nrfRelations \ {r}
         /\ databag' = [databag EXCEPT ![r] = {}]
         /\ arrived' = [arrived EXCEPT !.joins = @ \ {r}]
    /\ op' = "none"
    /\ joined' = 0
    /\ wrote' = FALSE
    /\ restarted' = FALSE
    /\ raised' = "none"
    /\ didDefer' = FALSE
    /\ emitted' = <<>>
    /\ UNCHANGED <<status, deferred, urlArg, start, tls, remoteApps,
                   canConnect, dbRelation, dbCreated, dbData, storage, files,
                   unitGet, leader, plan, services>>

PublishNext ==
    \/ DatabaseRelationJoined
    \/ NrfPebbleReady
    \/ DatabaseCreated
    \/ Redeliver
    \/ HandleRelationJoinedEvent
    \/ FivegNrfRelationCreated
    \/ FivegNrfRelationRemoved
    \/ LeaderChanges
    \/ ContainerChanges
    \/ DatabaseRelationChanges
    \/ DatabaseDataChanges
    \/ StorageChanges
    \/ PodIpChanges

\* A waiting relation-joined event is handled, and a deferred event is
\* delivered again; nothing obliges the platform to do anything else.
PublishSpec ==
    /\ Init
    /\ [][PublishNext]_vars
    /\ WF_vars(HandleRelationJoinedEvent)
    /\ WF_vars(Redeliver)

-----------------------------------------------------------------------------
(* The certificate handlers.  charm.py at hand has none; they are taken     *)
(* from the specification's TLS collaborator (a private key, a certificate  *)
(* signing request and a certificate stored at fixed workload paths, and    *)
(* stored content compared with the event's before storing or requesting)   *)
(* and from the handler names and paths of tests/unit/test_charm.py.        *)

PrivateKeys == {"key 1"}
Csrs == {"csr 1", "csr 2", "csr 3"}
Certificates == {"certificate 1", "certificate 2", "certificate 3"}

\* What a certificate handler leaves: the stored material, the request it
\* made and the payload of its event.
TlsHandled(key, csr, pem, request, certificate, certificate_signing_request) ==
    [key |-> key, csr |-> csr, pem |-> pem, request |-> request,
     certificate |-> certificate,
     certificate_signing_request |-> certificate_signing_request]

\* certificates-relation-created: a private key is generated and stored.
_on_certificates_relation_created(generated_key) ==
    TlsHandled(generated_key, tls.csr, tls.pem, None, None, None)

\* certificates-relation-joined: with a private key stored, a CSR is
\* generated and stored, and a certificate is requested for it.
_on_certificates_relation_joined(generated_csr) ==
    IF tls.key = None
    THEN TlsHandled(tls.key, tls.csr, tls.pem, None, None, None)
    ELSE TlsHandled(tls.key, generated_csr, tls.pem, generated_csr, None, None)

\* certificates-relation-broken: the stored material is removed.
_on_certificates_relation_broken ==
    TlsHandled(None, None, None, None, None, None)

\* Mutant: the certificate is stored whatever CSR the event carries.
_on_certificate_available_unchecked(certificate, certificate_signing_request) ==
    TlsHandled(tls.key, tls.csr, certificate, None,
               certificate, certificate_signing_request)

\* certificate-available: the certificate is stored when the event's CSR is
\* the stored one.
_on_certificate_available(certificate, certificate_signing_request) ==
    IF tls.csr /= certificate_signing_request
    THEN TlsHandled(tls.key, tls.csr, tls.pem, None,
                    certificate, certificate_signing_request)
    ELSE TlsHandled(tls.key, tls.csr, certificate, None,
                    certificate, certificate_signing_request)

\* Mutant: any expiry notice leads to a new request.
_on_certificate_expiring_unchecked(certificate, generated_csr) ==
    TlsHandled(tls.key, generated_csr, tls.pem, generated_csr, certificate, None)

\* certificate-expiring: when the event's certificate is the stored one, a
\* CSR is generated and stored, and a certificate is requested for it.
_on_certificate_expiring(certificate, generated_csr) ==
    IF tls.pem /= certificate
    THEN TlsHandled(tls.key, tls.csr, tls.pem, None, certificate, None)
    ELSE TlsHandled(tls.key, generated_csr, tls.pem, generated_csr,
                    certificate, None)

\* A certificate handler ran; it touches nothing but the certificate material.
TlsStep(handler, handled) ==
    /\ op' = handler
    /\ tls' = handled
    /\ UNCHANGED <<platform, workload, databag, status, deferred, joined, wrote,
                   restarted, raised, didDefer, urlArg, requirer, arrivals>>

CertificatesRelationCreated ==
    \E key \in PrivateKeys :
        TlsStep("_on_certificates_relation_created",
                _on_certificates_relation_created(key))

CertificatesRelationJoined ==
    \E csr \in Csrs :
        TlsStep("_on_certificates_relation_joined",
                _on_certificates_relation_joined(csr))

CertificatesRelationBroken ==
    TlsStep("_on_certificates_relation_broken", _on_certificates_relation_broken)

CertificateAvailable ==
    \E certificate \in Certificates, csr \in Csrs :
        TlsStep("_on_certificate_available",
                _on_certificate_available(certificate, csr))

CertificateExpiring ==
    \E certificate \in Certificates, csr \in Csrs :
        TlsStep("_on_certificate_expiring",
                _on_certificate_expiring(certificate, csr))

TlsNext ==
    \/ CertificatesRelationCreated
    \/ CertificatesRelationJoined
    \/ CertificatesRelationBroken
    \/ CertificateAvailable
    \/ CertificateExpiring

TlsSpec == Init /\ [][TlsNext]_vars

-----------------------------------------------------------------------------
(* The reconciliation on its own, with the scheduling it relies on: Juju    *)
(* delivers a deferred event again, and the database events as long as the  *)
(* database relation, or its resource, is there.                            *)

LiveNext ==
    \/ DatabaseRelationJoined
    \/ NrfPebbleReady
    \/ DatabaseCreated
    \/ Redeliver
    \/ ContainerChanges
    \/ ContainerReplaced
    \/ DatabaseRelationChanges
    \/ DatabaseDataChanges
    \/ StorageChanges
    \/ PodIpChanges
    \/ ServiceStops

LiveSpec ==
    /\ Init /\ [][LiveNext]_vars
    /\ WF_vars(Redeliver)
    /\ WF_vars(DatabaseCreated)
    /\ WF_vars(DatabaseRelationJoined)

-----------------------------------------------------------------------------
(* Properties *)

\* The first entry of the comma-separated uris field is there and not empty.
UriPresent ==
    \E p \in dbData : p[1] = "uris" /\ p[2] /= <<>> /\ p[2][1] /= ","

\* Container reachable, database relation, resource created, URI, storage, pod IP.
Ready ==
    canConnect /\ dbRelation /\ dbCreated /\ UriPresent /\ storage /\ unitGet /= ""

\* The text of s before its first comma: s.split(",")[0].
RECURSIVE FirstEntry(_)
FirstEntry(s) ==
    IF s = <<>> THEN <<>>
    ELSE IF Head(s) = "," THEN <<>>
    ELSE <<Head(s)>> \o FirstEntry(Tail(s))

Reconciled == op = "_configure_nrf"
Reconciles == op' = "_configure_nrf"
RelationJoined == op = "_on_fiveg_nrf_relation_joined"
RelationJoins == op' = "_on_fiveg_nrf_relation_joined"

Blocked == BlockedStatus("Waiting for database relation to be created")

Published(r) == databag[r] = {<<"url", NRF_URL>>}

ServiceRunning == <<"nrf", "active">> \in services

\* C1, as the specification states it: after a reconciliation pass with no
\* database relation the status is Blocked, whatever the rest of the state.
C1_BlockedWheneverNoRelation ==
    (Reconciled /\ ~dbRelation) => status = Blocked

\* C1, amended: after a reconciliation pass with the container reachable and
\* no database relation the status is Blocked (database relation not
\* created), whatever the storage, the pod IP, the leadership and the
\* fiveg-nrf relations; with the container unreachable it is Waiting for the
\* container.
C1_BlockedWhenReachableAndNoRelation ==
    (Reconciled /\ ~dbRelation) =>
        /\ canConnect => status = Blocked
        /\ ~canConnect => status = WaitingStatus("Waiting for container to be ready")

C1_Witness ==
    /\ Reconciled /\ ~dbRelation /\ canConnect
    /\ storage /\ unitGet /= "" /\ leader /\ nrfRelations /= {}
    /\ status = Blocked

Stored == <<ConfigFilePath, RenderedContent>> \in files

\* C3, as the specification states it: a pass that finds the stored config
\* equal to the rendered one writes no file and does not restart the service.
C3_NoWriteNoRestart ==
    [][(Reconciles /\ Ready /\ Stored) =>
           (files' = files /\ ~wrote' /\ ~restarted' /\ services' = services)]_vars

\* C3, amended: a pass that finds the stored config equal to the rendered one
\* writes no file; it restarts the service only if the services of the active
\* plan differ from those of the desired layer.
C3_NoWriteRestartOnlyOnPlanChange ==
    [][(Reconciles /\ Ready /\ Stored) =>
           /\ files' = files /\ ~wrote'
           /\ restarted' <=> plan /= _pebble_layer
           /\ ~restarted' => (services' = services /\ plan' = plan)]_vars

\* The stored config matched, the plan did not: restarted without a write.
C3_Witness ==
    Reconciled /\ Ready /\ status = ActiveStatus /\ ~wrote /\ restarted

\* C4: a pass with all preconditions met that finds the config file absent
\* or different from the rendered content writes the rendered content to
\* /etc/nrf/nrfcfg.yaml and restarts the service.
C4_WriteAndRestartOnMismatch ==
    [][(Reconciles /\ Ready /\ ~Stored) =>
           /\ files' = {f \in files : f[1] /= ConfigFilePath}
                          \cup {<<ConfigFilePath, RenderedContent>>}
           /\ wrote' /\ restarted'
           /\ <<"nrf", "active">> \in services']_vars

\* A pass replaced a stored config by another one.
C4_Witness ==
    /\ Reconciled /\ Ready /\ wrote /\ restarted /\ Stored
    /\ RenderedContent.database_url = <<"http://other">>

\* C5: a pass that reaches the workload configuration adds the layer and
\* restarts the service if and only if the services of the active plan differ
\* from the layer's or the pass rewrote the config file; no other pass
\* restarts the service.
C5_RestartIffPlanOrConfigChanged ==
    [][Reconciles =>
           /\ Ready => (restarted' <=> (plan /= _pebble_layer \/ files' /= files))
           /\ ~Ready => ~restarted'
           /\ restarted' => (plan' = _pebble_layer /\ <<"nrf", "active">> \in services')
           /\ ~restarted' => (plan' = plan /\ services' = services)]_vars

\* A pass with everything in place left the workload alone.
C5_Witness ==
    Reconciled /\ Ready /\ ~restarted /\ ~wrote /\ plan = _pebble_layer

C8_NonLeaderWritesNothing ==
    [][((Reconciles \/ RelationJoins) /\ ~leader) =>
           (databag' = databag /\ raised' = "none")]_vars

\* A non-leader reached Active, and a non-leader handled relation-joined with
\* the service running: the relation's databag is empty.
C8_Witness ==
    /\ ~leader /\ canConnect /\ ServiceRunning /\ status = ActiveStatus
    /\ RelationJoined /\ databag[joined] = {}

\* C9: fiveg-nrf-relation-joined handled while the nrf service is not running
\* (container unreachable, service unknown to Pebble, or service stopped)
\* writes nothing and does not fail, leader or not.
C9_NotRunningWritesNothing ==
    [][(RelationJoins /\ ~(canConnect /\ ServiceRunning)) =>
           (databag' = databag /\ raised' = "none")]_vars

\* The leader handled relation-joined with the service stopped.
C9_Witness ==
    /\ RelationJoined /\ leader /\ canConnect
    /\ <<"nrf", "inactive">> \in services /\ databag[joined] = {}

\* An absolute URL: a scheme, "://" and a host.
AbsoluteUrl(url) ==
    Len(url) >= 3 /\ url[1] /= "" /\ url[2] = "://" /\ url[3] /= ""

SetsNrfInformation == op' = "set_nrf_information"

\* C10: set_nrf_information with a value that is not an absolute URL writes
\* no databag and ends in an error; called as the operation requires (by the
\* leader, with a relation), the error is the validation error.
C10_InvalidUrlRejected ==
    [][(SetsNrfInformation /\ ~AbsoluteUrl(urlArg')) =>
           /\ databag' = databag
           /\ raised' /= "none"
           /\ (leader /\ nrfRelations /= {}) => raised' = "ValueError"]_vars

\* The leader published "not a url" over a relation that held a URL.
C10_Witness ==
    /\ op = "set_nrf_information" /\ urlArg = <<"not a url">>
    /\ leader /\ raised = "ValueError"
    /\ \E r \in nrfRelations : HasKey(databag[r], "url")

\* C11: set_nrf_information called by a unit that is not the leader ends in
\* the RuntimeError of the leadership check, which the library lets through to
\* its caller, and leaves every relation databag as it was: whatever the url
\* argument, and whatever relations exist.
C11_NonLeaderCallRejected ==
    [][(SetsNrfInformation /\ ~leader) =>
           /\ raised' = "RuntimeError"
           /\ databag' = databag]_vars

\* A non-leader called with a valid URL while a relation existed.
C11_Witness ==
    /\ op = "set_nrf_information" /\ ~leader
    /\ AbsoluteUrl(urlArg) /\ nrfRelations /= {}
    /\ raised = "RuntimeError"

\* C12: the leader's call with a valid URL while the fiveg-nrf endpoint has no
\* relation returns without an exception.
C12_NoRelationIsNoError ==
    (/\ op = "set_nrf_information" /\ leader /\ nrfRelations = {}
     /\ NRFProvides_relation_data_is_valid(urlArg)) => raised = "none"

\* C13: a call that succeeds overwrites the record of one relation only; the
\* databags of the other fiveg-nrf relations stay as they were.
C13_OneRelationWritten ==
    [][(SetsNrfInformation /\ raised' = "none") =>
           \E r \in RelationIds :
               \A q \in RelationIds \ {r} : databag'[q] = databag[q]]_vars

\* The relation-changed handler ran for a relation whose remote application
\* is known.
RelationChangedRead ==
    op = "_on_relation_changed" /\ joined \in remoteApps

\* C14: after relation-changed for a relation whose provider databag holds a
\* valid absolute URL under url, exactly one nrf_available event was emitted,
\* and it carries that URL.
C14_ValidUrlEmitted ==
    (/\ RelationChangedRead
     /\ HasKey(databag[joined], "url")
     /\ AbsoluteUrl(Get(databag[joined], "url")))
        => emitted = << Get(databag[joined], "url") >>

\* C15: relation-changed emits no nrf_available event and raises nothing when
\* the relation has no remote application, when the provider databag is
\* empty, or when its url is not a well-formed absolute URL.
C15_NothingEmittedWithoutValidUrl ==
    (/\ op = "_on_relation_changed"
     /\ \/ joined \notin remoteApps
        \/ databag[joined] = {}
        \/ /\ HasKey(databag[joined], "url")
           /\ ~AbsoluteUrl(Get(databag[joined], "url")))
        => emitted = <<>> /\ raised = "none"

\* Relation-changed was handled with "not a url" in the provider databag.
C15_Witness ==
    /\ RelationChangedRead
    /\ databag[joined] = {<<"url", <<"not a url">>>>}
    /\ emitted = <<>>

\* C16: the requirer accepts a provider databag {url: u}, and emits, exactly
\* when the provider's check accepts u for publication.
C16_SameRuleOnBothSides ==
    (RelationChangedRead /\ HasKey(databag[joined], "url"))
        => (emitted /= <<>> <=>
               NRFProvides_relation_data_is_valid(Get(databag[joined], "url")))

\* C18, as the specification states it: a reconciliation pass that ends in a
\* Waiting status has deferred its event.
C18_WaitingDefers ==
    (Reconciled /\ status.name = "waiting") => didDefer

\* C18, amended: a reconciliation pass that ends in a Waiting status has
\* deferred its event, which then waits for redelivery, unless the status is
\* Waiting for the database to be available: that pass returns without
\* deferring.
C18_WaitingDefersButForDatabase ==
    (Reconciled /\ status.name = "waiting") =>
        /\ didDefer <=>
               status /= WaitingStatus("Waiting for the database to be available")
        /\ didDefer => deferred

\* A pass found the storage missing and deferred.
C18_Witness ==
    /\ Reconciled /\ didDefer /\ deferred
    /\ status = WaitingStatus("Waiting for storage to be attached")

\* C19: after a reconciliation pass with the container reachable, the status
\* is that of the first database precondition that fails: Blocked without a
\* database relation; else Waiting for the database to be available when the
\* resource is not created; else Waiting for database URI when uris is missing
\* or its first entry is empty.  Storage and pod IP play no part.
C19_FirstUnmetDatabasePrecondition ==
    (Reconciled /\ canConnect) =>
        /\ ~dbRelation => status = Blocked
        /\ (dbRelation /\ ~dbCreated) =>
               status = WaitingStatus("Waiting for the database to be available")
        /\ (dbRelation /\ dbCreated /\ ~UriPresent) =>
               status = WaitingStatus("Waiting for database URI")

\* A pass met uris with an empty first entry, storage and pod IP being there.
C19_Witness ==
    /\ Reconciled /\ canConnect /\ dbRelation /\ dbCreated
    /\ dbData = {<<"uris", <<",", "http://other">>>>}
    /\ storage /\ unitGet /= ""
    /\ status = WaitingStatus("Waiting for database URI")

\* C20: after a reconciliation pass with the container reachable and the
\* database relation, resource and URI there: without the storage the status
\* is Waiting for storage to be attached; with it and without a pod IP the
\* status is Waiting for pod IP address to be available, pass after pass.
C20_StorageThenPodIp ==
    (Reconciled /\ canConnect /\ dbRelation /\ dbCreated /\ UriPresent) =>
        /\ ~storage => status = WaitingStatus("Waiting for storage to be attached")
        /\ (storage /\ unitGet = "") =>
               status = WaitingStatus("Waiting for pod IP address to be available")

\* A pass without a pod IP, run while an earlier event was waiting deferred.
C20_Witness ==
    /\ Reconciled /\ canConnect /\ dbRelation /\ dbCreated /\ UriPresent
    /\ storage /\ unitGet = "" /\ deferred /\ didDefer
    /\ status = WaitingStatus("Waiting for pod IP address to be available")

\* The status a reconciliation pass gives in the external state as it is.
StatusOfPass ==
    IF ~canConnect THEN WaitingStatus("Waiting for container to be ready")
    ELSE IF ~dbRelation THEN Blocked
    ELSE IF ~dbCreated
    THEN WaitingStatus("Waiting for the database to be available")
    ELSE IF ~UriPresent THEN WaitingStatus("Waiting for database URI")
    ELSE IF ~storage THEN WaitingStatus("Waiting for storage to be attached")
    ELSE IF unitGet = ""
    THEN WaitingStatus("Waiting for pod IP address to be available")
    ELSE ActiveStatus

\* The service was running when the events arrived.
RunningAtStart == canConnect /\ <<"nrf", "active">> \in start.services

C21_PassNeverFails ==
    Reconciled =>
        /\ raised = "none"
        /\ status.name \in {"blocked", "waiting", "active"}

C23_RegressionLeavesActive ==
    (status = ActiveStatus /\ ~Ready) ~> (status /= ActiveStatus \/ Ready)

\* The plan test_charm.py expects after pebble-ready.
ExpectedPlan ==
    { [name |-> "nrf",
       override |-> "replace",
       startup |-> "enabled",
       command |-> <<"/free5gc/nrf/nrf", "--nrfcfg",
                     <<"/etc/nrf", "/", "nrfcfg.yaml">> >>,
       environment |->
           [GRPC_GO_LOG_VERBOSITY_LEVEL |-> "99",
            GRPC_GO_LOG_SEVERITY_LEVEL |-> "info",
            GRPC_TRACE |-> "all",
            GRPC_VERBOSITY |-> "debug",
            MANAGED_BY_CONFIG_POD |-> "true"]] }

\* C24: after a reconciliation pass that ends in Active the Pebble plan holds
\* one service, nrf: override replace, startup enabled, the command
\* "/free5gc/nrf/nrf --nrfcfg /etc/nrf/nrfcfg.yaml" the test expects, and the
\* fixed environment.
C24_PlanIsTheExpectedLayer ==
    (Reconciled /\ status = ActiveStatus) => plan = ExpectedPlan

\* The url test_charm.py expects in the databag when everything exists.
ExpectedHttpsUrl == <<"https", "://", "nrf", ":", "29510">>

\* C25: after the relation-joined handler ran for the leader with the nrf
\* service running, the databag of the joined relation holds
\* url = "https://nrf:29510".
C25_HttpsUrlPublished ==
    (RelationJoined /\ leader /\ _nrf_service_is_running) =>
        databag[joined] = {<<"url", ExpectedHttpsUrl>>}

\* C26: the certificate-available handler stores the event's certificate at
\* /free5gc/support/TLS/nrf.pem if and only if the event's CSR is the stored
\* CSR; when they differ the stored material stays as it was.
C26_CertificateStoredIffCsrMatches ==
    [][op' = "_on_certificate_available" =>
          /\ tls.csr = tls'.certificate_signing_request =>
                 /\ tls'.pem = tls'.certificate
                 /\ tls'.key = tls.key /\ tls'.csr = tls.csr
          /\ tls.csr /= tls'.certificate_signing_request =>
                 /\ tls'.pem = tls.pem
                 /\ tls'.key = tls.key /\ tls'.csr = tls.csr]_vars

\* A certificate arrived for the stored CSR and replaced the stored one.
C26_Witness ==
    /\ op = "_on_certificate_available"
    /\ tls.csr = tls.certificate_signing_request
    /\ tls.pem = "certificate 2"

\* C27: the certificate-expiring handler requests a certificate, for a CSR
\* it generates and stores, if and only if the event's certificate is the
\* stored certificate; for another certificate it requests nothing.
C27_RequestIffCertificateMatches ==
    [][op' = "_on_certificate_expiring" =>
          /\ tls'.request /= None <=> tls.pem = tls'.certificate
          /\ tls'.request /= None => tls'.csr = tls'.request
          /\ tls'.request = None => tls'.csr = tls.csr
          /\ tls'.pem = tls.pem]_vars

\* The stored certificate was about to expire and a new one was requested.
C27_Witness ==
    /\ op = "_on_certificate_expiring"
    /\ tls.pem = tls.certificate
    /\ tls.request = "csr 2" /\ tls.csr = "csr 2"

\* C28: a reconciliation pass that ends in Blocked or Waiting writes no config
\* file, leaves the Pebble plan and the services as they were, restarts
\* nothing and writes no fiveg-nrf databag; and a pass without a database
\* relation never writes the config file.
C28_NoSideEffectUnlessActive ==
    [][/\ (Reconciles /\ status'.name \in {"blocked", "waiting"}) =>
              /\ UNCHANGED <<files, plan, services, databag>>
              /\ ~wrote' /\ ~restarted'
       /\ (Reconciles /\ ~dbRelation) => (files' = files /\ ~wrote')]_vars

\* A pass ended in Waiting for the pod IP, next to a stale config file, an
\* empty plan and a relation not published to.
C28_Witness ==
    /\ Reconciled /\ leader
    /\ status = WaitingStatus("Waiting for pod IP address to be available")
    /\ Exists(ConfigFilePath) /\ plan = {}
    /\ \E r \in nrfRelations : databag[r] = {}

\* C29: a reconciliation pass that follows at once a pass that ended in
\* Active writes no file, restarts nothing, leaves the plan, the services and
\* the databags as they are, and ends in Active.
C29_SecondPassChangesNothing ==
    [][(Reconciled /\ status = ActiveStatus /\ Reconciles) =>
           /\ ~wrote' /\ ~restarted'
           /\ UNCHANGED <<files, plan, services, databag>>
           /\ status' = ActiveStatus]_vars

\* A pass ended in Active with nothing to write and nothing to restart, the
\* leader's relations holding the url already.
C29_Witness ==
    /\ Reconciled /\ status = ActiveStatus /\ ~wrote /\ ~restarted
    /\ Stored /\ plan = _pebble_layer /\ ServiceRunning
    /\ leader /\ nrfRelations = RelationIds
    /\ \A r \in RelationIds : Published(r)

C31_DatabaseInfoNeverRaises == raised /= "RuntimeError"

\* A pass went past the availability check, queried the accessor and found
\* no uri.
C31_Witness ==
    /\ Reconciled /\ _database_is_available /\ raised = "none"
    /\ status = WaitingStatus("Waiting for database URI")
    /\ ~HasKey(dbData, "uris")

\* C32: a config file written by a reconciliation pass holds, as its database
\* url, the first comma-separated entry of uris, and that entry is not
\* empty; a pass that finds the first entry of uris empty ends in Waiting
\* for the database URI and writes nothing.
C32_WrittenUrlIsFirstUri ==
    /\ (Reconciled /\ wrote) =>
           /\ HasKey(dbData, "uris") /\ Exists(ConfigFilePath)
           /\ Pull(ConfigFilePath).database_url = FirstEntry(Get(dbData, "uris"))
           /\ Pull(ConfigFilePath).database_url /= <<>>
    /\ (/\ Reconciled /\ canConnect /\ dbRelation /\ dbCreated
        /\ HasKey(dbData, "uris")
        /\ FirstEntry(Get(dbData, "uris")) = <<>>) =>
           /\ status = WaitingStatus("Waiting for database URI")
           /\ ~wrote

\* A pass wrote the config file from a uris field of two entries.
C32_Witness ==
    /\ Reconciled /\ wrote
    /\ dbData = {<<"uris", <<"http://other", ",", "http://dummy">>>>}
    /\ Pull(ConfigFilePath).database_url = <<"http://other">>

\* C33: when _generate_config_file returns True in a reconciliation pass (the
\* checks passed and the stored file did not match), the config file holds
\* the rendered content after the pass; and a pass that restarts the service,
\* or that ends by setting Active, leaves the rendered content stored.
C33_RestartNeededMeansWritten ==
    [][/\ (Reconciles /\ Ready /\ ~Stored) => Stored'
       /\ (Reconciles /\ restarted') => Stored'
       /\ (Reconciles /\ raised' = "none" /\ status' = ActiveStatus) => Stored']_vars

\* The workload is configured and running: every precondition holds, the
\* rendered config is stored, the plan is the layer, the service runs and
\* the status is Active.
ConfiguredAndRunning ==
    Ready /\ Stored /\ plan = _pebble_layer /\ ServiceRunning
          /\ status = ActiveStatus

\* C34: while the workload is configured and running, the unit is leader and
\* a fiveg-nrf relation exists, that relation's databag eventually holds the
\* url (or one of the three ceases to hold).
C34_EventuallyPublished ==
    \A r \in RelationIds :
        (ConfiguredAndRunning /\ leader /\ r \in nrfRelations)
            ~> (Published(r)
                  \/ ~(ConfiguredAndRunning /\ leader /\ r \in nrfRelations))

====
